---- MODULE Spec2Model ----
(***************************************************************************)
(* A model of the Ninja generator of kati (src/ninja.cc).                  *)
(*                                                                         *)
(* Byte strings are sequences of one-character strings, so that searching, *)
(* trimming, escaping and basename extraction are computed on characters.  *)
(* Symbols (interned strings) are modelled by their byte strings: two      *)
(* Symbols are equal iff their strings are.                                *)
(***************************************************************************)
EXTENDS Integers, Sequences, FiniteSets, TLC

VARIABLES
    nodes,              \* GenerateNinja's argument `nodes`
    node_i,             \* the index in `nodes` of the next top-level EmitNode call
    build_all_targets,  \* GenerateNinja's argument
    graph,              \* the DepNode graph: DepNode id -> its fields
    done_,              \* NinjaGenerator::done_
    short_names_,       \* NinjaGenerator::short_names_
    rule_id_,           \* NinjaGenerator::rule_id_
    fp_,                \* the lines written to the Ninja file, in order
    stack,              \* the active EmitNode calls: [node, rest]
    visits,             \* per DepNode: how often EmitNode ran past the done_ check on it
    pc,                 \* where the run is
    arg,                \* the input of the function under study (pure-function specs)
    ret                 \* its result

vars == <<nodes, node_i, build_all_targets, graph, done_, short_names_,
          rule_id_, fp_, stack, visits, pc, arg, ret>>

(***************************************************************************)
(* Bounds of the model.                                                    *)
(***************************************************************************)
\* Total number of prerequisite entries (deps and order_onlys) in a graph.
MaxEdges == 2

\* Length of the recipe lines given to TranslateCommand.
MaxLine == 5

\* Number of Commands given to GenShellScript.
MaxCommands == 2

\* Number of fragments that follow the program name in a composed command.
MaxFragments == 4

(***************************************************************************)
(* Generic helpers on sequences.                                           *)
(***************************************************************************)
RECURSIVE Concat(_)
Concat(ss) == IF ss = <<>> THEN <<>> ELSE Head(ss) \o Concat(Tail(ss))

Range(s) == {s[i] : i \in 1..Len(s)}

\* The greatest index of character c in s, or 0 (string::rfind; 0 is npos).
RFind(s, c) ==
    LET hits == {i \in 1..Len(s) : s[i] = c}
    IN  IF hits = {} THEN 0 ELSE CHOOSE i \in hits : \A j \in hits : j <= i

(***************************************************************************)
(* Symbols and file names.                                                 *)
(***************************************************************************)
kEmptySym == <<>>

\* Basename of a path: what follows the last '/', the whole string when
\* there is none.
Basename(s) ==
    LET found == RFind(s, "/")
    IN  IF found = 0 THEN s ELSE SubSeq(s, found + 1, Len(s))

EscapeChar(c) == IF c \in {"$", ":", " "} THEN <<"$", c>> ELSE <<c>>

\* NinjaGenerator::EscapeBuildTarget: '$', ':' and ' ' get a '$' prefix.
EscapeBuildTarget(s) ==
    IF Range(s) \cap {"$", ":", " "} = {}
    THEN s
    ELSE Concat([i \in 1..Len(s) |-> EscapeChar(s[i])])

(***************************************************************************)
(* The input: a DepNode graph.  DepNodes are numbered; every DepNode has   *)
(* an output of its own (the dependency builder makes one DepNode per      *)
(* target).                                                                *)
(***************************************************************************)
Nodes == {1, 2, 3}
NoNode == "no node"

\* The output names given to the three DepNodes.  "$" is a name that
\* EscapeBuildTarget changes; "d/$" and "e/$" share its basename.
Outputs == << <<"$">>, <<"d", "/", "$">>, <<"e", "/", "$">> >>

\* The same with basenames that are the escaped form of the first name.
OutputsEsc == << <<"$">>, <<"d", "/", "$", "$">>, <<"e", "/", "$", "$">> >>

\* What EmitNode reads of a node besides its prerequisites.  cmds is "none"
\* for an empty cmds, "blank" for a cmds whose evaluation yields no Command
\* and "cmd" for one that evaluates to at least one Command.  is_phony is
\* read only when cmds is empty.
NodeKinds ==
    { [is_phony |-> FALSE, cmds |-> "none"],
      [is_phony |-> TRUE,  cmds |-> "none"],
      [is_phony |-> FALSE, cmds |-> "blank"],
      [is_phony |-> FALSE, cmds |-> "cmd"] }

\* A prerequisite entry: `to` is in deps, or in order_onlys, of `from`.
Edges == {e \in [from : Nodes, to : Nodes, order_only : BOOLEAN] : e.from # e.to}

RECURSIVE EdgeSeqs(_)
EdgeSeqs(n) ==
    IF n = 0 THEN {<<>>}
    ELSE LET shorter == EdgeSeqs(n - 1)
         IN  shorter \cup {Append(es, e) : es \in shorter, e \in Edges}

RECURSIVE Targets(_, _, _)
\* The targets of the edges of es that leave n and are of kind oo, in order.
Targets(es, n, oo) ==
    IF es = <<>> THEN <<>>
    ELSE LET e == Head(es)
         IN  (IF e.from = n /\ e.order_only = oo THEN <<e.to>> ELSE <<>>)
             \o Targets(Tail(es), n, oo)

MkGraph(names, es, kind) ==
    [n \in Nodes |->
        [output      |-> names[n],
         deps        |-> Targets(es, n, FALSE),
         order_onlys |-> Targets(es, n, TRUE),
         cmds        |-> kind[n].cmds,
         is_phony    |-> kind[n].is_phony]]

Graphs(names) ==
    {MkGraph(names, es, kind) : es \in EdgeSeqs(MaxEdges), kind \in [Nodes -> NodeKinds]}

\* The `nodes` vectors: none, one or two distinct DepNodes.
NodeVectors ==
    {<<>>} \cup {<<a>> : a \in Nodes} \cup {v \in Nodes \X Nodes : v[1] # v[2]}

(***************************************************************************)
(* The Ninja file: a sequence of lines.                                    *)
(***************************************************************************)
RuleLine(name) ==
    [kind |-> "rule", lhs |-> name, rule |-> <<>>, ins |-> <<>>, oos |-> <<>>, by |-> NoNode]

\* NinjaGenerator::EmitBuild
EmitBuild(n, rule_name) ==
    [kind |-> "build",
     lhs  |-> EscapeBuildTarget(graph[n].output),
     rule |-> rule_name,
     ins  |-> [i \in 1..Len(graph[n].deps) |->
                  EscapeBuildTarget(graph[graph[n].deps[i]].output)],
     oos  |-> [i \in 1..Len(graph[n].order_onlys) |->
                  EscapeBuildTarget(graph[graph[n].order_onlys[i]].output)],
     by   |-> n]

DefaultLine(out) ==
    [kind |-> "default", lhs |-> out, rule |-> <<>>, ins |-> <<>>, oos |-> <<>>, by |-> NoNode]

ShortcutLine(base, out) ==
    [kind |-> "shortcut", lhs |-> base, rule |-> <<"phony">>, ins |-> <<out>>,
     oos |-> <<>>, by |-> NoNode]

(***************************************************************************)
(* NinjaGenerator::EmitNode                                                *)
(***************************************************************************)
\* A suppression test that forgets is_phony: it would drop phony leaves.
SuppressedIgnoringPhony(node) ==
    /\ node.cmds = "none"
    /\ node.deps = <<>>
    /\ node.order_onlys = <<>>

\* The suppression test of EmitNode.
Suppressed(node) ==
    /\ node.cmds = "none"
    /\ node.deps = <<>>
    /\ node.order_onlys = <<>>
    /\ ~node.is_phony

\* An insert that is lost: the output would not be remembered as done.
DoneInsertSkip(d, out) == d

\* done_.insert(node->output)
DoneInsert(d, out) == d \cup {out}

\* An update without the collision branch: the first output of a basename
\* would keep its shortcut.
ShortNamesKeepFirst(sn, out) ==
    LET base == Basename(out)
    IN  IF base = out \/ base \in DOMAIN sn THEN sn
        ELSE [b \in DOMAIN sn \cup {base} |-> IF b = base THEN out ELSE sn[b]]
\* short_names_.emplace(Intern(base), node->output), and the empty Symbol on
\* a key that is already there.
ShortNamesUpdate(sn, out) ==
    LET base == Basename(out)
    IN  IF base = out THEN sn
        ELSE [b \in DOMAIN sn \cup {base} |->
                IF b # base THEN sn[b]
                ELSE IF base \in DOMAIN sn THEN kEmptySym ELSE out]

\* CommandEvaluator::Eval, as far as EmitNode looks: are there Commands?
HasCommands(node) == node.cmds = "cmd"

\* NinjaGenerator::GenRuleName: "rule%d" of rule_id_, which it increments.
RuleName(id) == <<"rule", id>>

\* A counter that is read and not incremented.
RuleIdStuck(id) == id

\* rule_id_++
RuleIdNext(id) == id + 1

RECURSIVE Unwind(_)
\* The frames left when every EmitNode call whose loops are over has returned.
Unwind(frames) ==
    IF frames # <<>> /\ Head(frames).rest = <<>> THEN Unwind(Tail(frames)) ELSE frames

\* One call of EmitNode on DepNode n, up to its loops over the prerequisites
\* (and through its return when there is nothing to loop over); `callers`
\* are the frames of the calls it was made from.
EmitNode(n, callers) ==
    LET node == graph[n]
    IN  IF node.output \in done_
        THEN /\ stack' = Unwind(callers)
             /\ UNCHANGED <<done_, short_names_, rule_id_, fp_, visits>>
        ELSE /\ done_' = DoneInsert(done_, node.output)
             /\ visits' = [visits EXCEPT ![n] = @ + 1]
             /\ IF Suppressed(node)
                THEN /\ stack' = Unwind(callers)
                     /\ UNCHANGED <<short_names_, rule_id_, fp_>>
                ELSE /\ short_names_' = ShortNamesUpdate(short_names_, node.output)
                     /\ IF HasCommands(node)
                        THEN /\ rule_id_' = RuleIdNext(rule_id_)
                             /\ fp_' = fp_ \o <<RuleLine(RuleName(rule_id_)),
                                               EmitBuild(n, RuleName(rule_id_))>>
                        ELSE /\ rule_id_' = rule_id_
                             /\ fp_' = Append(fp_, EmitBuild(n, <<"phony">>))
                     /\ stack' = Unwind(<<[node |-> n,
                                           rest |-> node.deps \o node.order_onlys]>>
                                        \o callers)

\* GenerateNinja's loop over `nodes`: the next top-level EmitNode call.
GenerateNinjaLoop ==
    /\ pc = "nodes"
    /\ stack = <<>>
    /\ node_i <= Len(nodes)
    /\ node_i' = node_i + 1
    /\ EmitNode(nodes[node_i], <<>>)
    /\ UNCHANGED <<nodes, build_all_targets, graph, pc, arg, ret>>

\* EmitNode's loops over deps and then order_onlys: the next recursive call.
EmitNodeRecurse ==
    /\ pc = "nodes"
    /\ stack # <<>>
    /\ EmitNode(Head(Head(stack).rest),
                <<[Head(stack) EXCEPT !.rest = Tail(@)]>> \o Tail(stack))
    /\ UNCHANGED <<nodes, node_i, build_all_targets, graph, pc, arg, ret>>

(***************************************************************************)
(* NinjaGenerator::GenerateNinja after the loop: the default target and    *)
(* the shortcuts.                                                          *)
(***************************************************************************)
\* The orders in which a hash map of these keys can be iterated.
Orders(keys) ==
    {o \in [1..Cardinality(keys) -> keys] : \A i, j \in DOMAIN o : i # j => o[i] # o[j]}

DefaultLines ==
    IF build_all_targets THEN <<>> ELSE <<DefaultLine(graph[Head(nodes)].output)>>

RECURSIVE ShortcutLines(_)
ShortcutLines(order) ==
    IF order = <<>> THEN <<>>
    ELSE LET base == Head(order)
         IN  (IF short_names_[base] # kEmptySym /\ base \notin done_
              THEN <<ShortcutLine(base, short_names_[base])>>
              ELSE <<>>)
             \o ShortcutLines(Tail(order))

\* The other order: the shortcuts, then the default line.
TailShortcutsFirst(order) == ShortcutLines(order) \o DefaultLines

\* What GenerateNinja writes after its loop: the default line, then the
\* shortcuts.
GenerateNinjaTail(order) == DefaultLines \o ShortcutLines(order)

\* CHECK(!nodes.empty()) aborts a run that is to write a default target
\* and has no node.
GenerateNinjaFinish ==
    /\ pc = "nodes"
    /\ stack = <<>>
    /\ node_i > Len(nodes)
    /\ IF ~build_all_targets /\ nodes = <<>>
       THEN /\ pc' = "aborted"
            /\ fp_' = fp_
       ELSE /\ pc' = "closed"
            /\ \E order \in Orders(DOMAIN short_names_) :
                   fp_' = fp_ \o GenerateNinjaTail(order)
    /\ UNCHANGED <<nodes, node_i, build_all_targets, graph, done_, short_names_,
                   rule_id_, stack, visits, arg, ret>>

\* The members of a NinjaGenerator when it is constructed.
Constructed ==
    /\ nodes = <<>>
    /\ node_i = 1
    /\ build_all_targets = FALSE
    /\ done_ = {}
    /\ short_names_ = <<>>
    /\ rule_id_ = 0
    /\ fp_ = <<>>
    /\ stack = <<>>
    /\ visits = [n \in Nodes |-> 0]
    /\ arg = <<>>
    /\ ret = <<>>

\* The state when the NinjaGenerator is constructed, with the DepNode graph
\* it is to walk.
InitEmit(names) ==
    /\ Constructed
    /\ graph \in Graphs(names)
    /\ pc = "start"

\* The call of GenerateNinja with its arguments, up to the loop over `nodes`.
GenerateNinja ==
    /\ pc = "start"
    /\ \E v \in NodeVectors, all \in BOOLEAN :
          /\ nodes' = v
          /\ build_all_targets' = all
    /\ pc' = "nodes"
    /\ UNCHANGED <<node_i, graph, done_, short_names_, rule_id_, fp_, stack, visits, arg, ret>>

NextEmit ==
    \/ GenerateNinja
    \/ GenerateNinjaLoop
    \/ EmitNodeRecurse
    \/ GenerateNinjaFinish

Spec == InitEmit(Outputs) /\ [][NextEmit]_vars

SpecEsc == InitEmit(OutputsEsc) /\ [][NextEmit]_vars

(***************************************************************************)
(* NinjaGenerator::TranslateCommand                                        *)
(***************************************************************************)
\* isspace() in the C locale (the vertical tab is not in the alphabets used).
IsSpace(c) == c \in {" ", "\t", "\n", "\r", "\f"}

\* The value 0 of `char quote`.
NoQuote == ""

\* The backquote character (a TLA+ string cannot hold it).
Backquote == "bq"

\* The bytes that TranslateCommand and GetDescriptionFromCommand take for quotes.
QuoteChars == {"'", "\"", Backquote}

Last(s) == s[Len(s)]
Front(s) == SubSeq(s, 1, Len(s) - 1)

\* The locals of TranslateCommand before its loop.
TranslateStart(cmd_buf) ==
    [buf |-> cmd_buf, orig_size |-> Len(cmd_buf), prev_backslash |-> FALSE,
     prev_char |-> " ", quote |-> NoQuote, done |-> FALSE]

\* A quote that opens whatever precedes it.
QuoteOpenAlways(st, c) == c

\* The opening of a quote: only when no backslash escapes the quote character.
QuoteOpen(st, c) == IF ~st.prev_backslash THEN c ELSE st.quote

\* A comment test that forgets the quote state.
CommentStartAnywhere(st) == IsSpace(st.prev_char)

\* The test that makes a '#' start a comment.
CommentStart(st) == st.quote = NoQuote /\ IsSpace(st.prev_char)

\* One iteration of the loop of TranslateCommand, on byte c.
TranslateByte(st, c) ==
    LET sw == CASE c = "#" ->
                     IF CommentStart(st)
                     THEN [st EXCEPT !.done = TRUE]
                     ELSE [st EXCEPT !.buf = Append(@, c)]
                [] c \in QuoteChars ->
                     [st EXCEPT !.quote = IF st.quote # NoQuote
                                          THEN (IF st.quote = c THEN NoQuote ELSE @)
                                          ELSE QuoteOpen(st, c),
                                !.buf = Append(@, c)]
                [] c = "$" -> [st EXCEPT !.buf = @ \o <<"$", "$">>]
                [] c = "\n" ->
                     IF st.prev_backslash
                     THEN [st EXCEPT !.buf = Front(@)]
                     ELSE [st EXCEPT !.buf = Append(@, " ")]
                [] c = "\\" -> [st EXCEPT !.buf = Append(@, "\\")]
                [] OTHER -> [st EXCEPT !.buf = Append(@, c)]
    IN  [sw EXCEPT !.prev_backslash = IF c = "\\" THEN ~st.prev_backslash ELSE FALSE,
                   !.prev_char = c]

RECURSIVE TranslateLoop(_, _)
\* for (; *in && !done; in++)
TranslateLoop(st, in) ==
    IF in = <<>> \/ st.done THEN st ELSE TranslateLoop(TranslateByte(st, Head(in)), Tail(in))

RECURSIVE TranslateStrip(_)
\* The loop that drops trailing whitespace and ';'.  It reads
\* (*cmd_buf)[cmd_buf->size()-1] without looking at the size: on an empty
\* buffer that is a read out of the string (oob).
TranslateStrip(buf) ==
    IF buf = <<>> THEN [buf |-> buf, oob |-> TRUE]
    ELSE IF ~IsSpace(Last(buf)) /\ Last(buf) # ";" THEN [buf |-> buf, oob |-> FALSE]
    ELSE TranslateStrip(Front(buf))

\* TranslateCommand(in, cmd_buf): the buffer it leaves, where the returned
\* piece starts, and whether the strip loop read out of the string.
TranslateCommand(in, cmd_buf) ==
    LET st == TranslateLoop(TranslateStart(cmd_buf), in)
        r  == TranslateStrip(st.buf)
    IN  [buf |-> r.buf, orig_size |-> st.orig_size, oob |-> r.oob]

\* The returned StringPiece, when the buffer is not shorter than it was.
Translated(t) == SubSeq(t.buf, t.orig_size + 1, Len(t.buf))

(***************************************************************************)
(* NinjaGenerator::GetDescriptionFromCommand and GenShellScript            *)
(***************************************************************************)
HasPrefix(s, p) == Len(s) >= Len(p) /\ SubSeq(s, 1, Len(p)) = p

RECURSIVE DescriptionLoop(_, _, _, _)
\* The loop of GetDescriptionFromCommand over the bytes after "echo ":
\* ok is false when it returns false.
DescriptionLoop(in, prev_backslash, quote, out_buf) ==
    IF in = <<>> THEN [ok |-> TRUE, out |-> out_buf]
    ELSE LET c == Head(in)
         IN  IF prev_backslash
             THEN DescriptionLoop(Tail(in), FALSE, quote, Append(out_buf, c))
             ELSE IF c = "\\"
             THEN DescriptionLoop(Tail(in), TRUE, quote, Append(out_buf, c))
             ELSE IF quote # NoQuote
             THEN IF c = quote
                  THEN DescriptionLoop(Tail(in), FALSE, NoQuote, out_buf)
                  ELSE DescriptionLoop(Tail(in), FALSE, quote, Append(out_buf, c))
             ELSE IF c \in QuoteChars
             THEN DescriptionLoop(Tail(in), FALSE, c, out_buf)
             ELSE IF c \in {"<", ">", "&", "|", ";"}
             THEN [ok |-> FALSE, out |-> <<>>]
             ELSE DescriptionLoop(Tail(in), FALSE, quote, Append(out_buf, c))

GetDescriptionFromCommand(cmd) ==
    IF ~HasPrefix(cmd, <<"e", "c", "h", "o", " ">>)
    THEN [ok |-> FALSE, out |-> <<>>]
    ELSE DescriptionLoop(SubSeq(cmd, 6, Len(cmd)), FALSE, NoQuote, <<>>)

RECURSIVE SkipSpace(_)
\* while (isspace(*in)) in++;
SkipSpace(in) == IF in # <<>> /\ IsSpace(Head(in)) THEN SkipSpace(Tail(in)) ELSE in

\* The locals of GenShellScript before its loop; oob records a read out of
\* the buffer in a TranslateCommand call.
ShellStart ==
    [cmd_buf |-> <<>>, description |-> <<"b", "u", "i", "l", "d", " ", "$", "o", "u", "t">>,
     got_description |-> FALSE, should_ignore_error |-> FALSE, oob |-> FALSE]

\* The other order: the ')' of the subshell, then " ; true".
ShellCloseOutside(buf, is_last, ignore_error, needs_subshell) ==
    buf \o (IF needs_subshell THEN <<")">> ELSE <<>>)
        \o (IF is_last /\ ignore_error THEN <<" ", ";", " ", "t", "r", "u", "e">> ELSE <<>>)

\* The end of one iteration of GenShellScript's loop: " ; true" for the last
\* command when it ignores errors, then the ')' of the subshell.
ShellClose(buf, is_last, ignore_error, needs_subshell) ==
    buf \o (IF is_last /\ ignore_error THEN <<" ", ";", " ", "t", "r", "u", "e">> ELSE <<>>)
        \o (IF needs_subshell THEN <<")">> ELSE <<>>)

\* One iteration of the loop of GenShellScript, on command c, the k-th of n.
\* The model runs without goma (g_goma_dir is NULL).
ShellCommand(sh, c, k, n, detect_android_echo) ==
    LET sep  == IF sh.cmd_buf = <<>> THEN <<>>
                ELSE IF sh.should_ignore_error THEN <<" ", ";", " ">>
                ELSE <<" ", "&", "&", " ">>
        in   == SkipSpace(c.cmd)
        needs_subshell == n > 1 /\ ~(in # <<>> /\ Head(in) = "(")
        buf1 == sh.cmd_buf \o sep \o (IF needs_subshell THEN <<"(">> ELSE <<>>)
        cmd_start == Len(buf1)
        t    == TranslateCommand(in, buf1)
        desc == GetDescriptionFromCommand(Translated(t))
        take == detect_android_echo /\ ~sh.got_description /\ ~c.echo /\ desc.ok
        buf2 == IF take THEN SubSeq(t.buf, 1, cmd_start) ELSE t.buf
        translated == IF take THEN <<>> ELSE Translated(t)
        buf3 == IF translated = <<>> THEN buf2 \o <<"t", "r", "u", "e">> ELSE buf2
    IN  [cmd_buf |-> ShellClose(buf3, k = n, c.ignore_error, needs_subshell),
         description |-> IF take THEN desc.out ELSE sh.description,
         got_description |-> sh.got_description \/ take,
         should_ignore_error |-> c.ignore_error,
         oob |-> sh.oob \/ t.oob]

RECURSIVE ShellLoop(_, _, _, _)
ShellLoop(sh, commands, k, detect_android_echo) ==
    IF k > Len(commands) THEN sh
    ELSE ShellLoop(ShellCommand(sh, commands[k], k, Len(commands), detect_android_echo),
                   commands, k + 1, detect_android_echo)

\* GenShellScript(commands, &cmd_buf, &description) on an empty cmd_buf.
GenShellScript(commands, detect_android_echo) ==
    ShellLoop(ShellStart, commands, 1, detect_android_echo)

(***************************************************************************)
(* GetDepfileFromCommand and EmitDepfile                                   *)
(***************************************************************************)
\* The one element of a singleton; it names a value that is computed once.
The(S) == CHOOSE x \in S : TRUE

RECURSIVE FindFrom(_, _, _)
FindFrom(hay, needle, i) ==
    IF i + Len(needle) - 1 > Len(hay) THEN 0
    ELSE IF SubSeq(hay, i, i + Len(needle) - 1) = needle THEN i
    ELSE FindFrom(hay, needle, i + 1)

\* string::find: the least index at which needle occurs in hay, counted
\* from 1; 0 stands for npos.
Find(hay, needle) == The({FindFrom(h, n, 1) : h \in {hay}, n \in {needle}})

Contains(hay, needle) == Find(hay, needle) # 0

\* FindCommandLineFlag: a match at the very start does not count.
FindCommandLineFlag(cmd, name) ==
    The({IF found = 0 \/ found = 1 THEN 0 ELSE found : found \in {Find(cmd, name)}})

RECURSIVE TrimFrom(_, _)
TrimFrom(s, i) ==
    IF i <= Len(s) /\ IsSpace(s[i]) THEN TrimFrom(s, i + 1) ELSE SubSeq(s, i, Len(s))

\* TrimLeftSpace: the string without its leading whitespace.
TrimLeftSpace(s) == The({TrimFrom(v, 1) : v \in {s}})

\* What follows the flag found at index, without its leading whitespace.
FlagArg(val, name, index) == TrimLeftSpace(SubSeq(val, index + Len(name), Len(val)))

RECURSIVE LastFlagArg(_, _)
\* The loop of FindCommandLineFlagWithArg: on to the last occurrence of name.
LastFlagArg(val, name) ==
    The({IF index = 0 THEN val ELSE LastFlagArg(FlagArg(val, name, index), name) :
            index \in {Find(val, name)}})

RECURSIVE UpToSpace(_, _)
\* val.substr(0, val.find_first_of(" \t"))
UpToSpace(val, i) ==
    IF i > Len(val) \/ val[i] \in {" ", "\t"} THEN SubSeq(val, 1, i - 1)
    ELSE UpToSpace(val, i + 1)

FindCommandLineFlagWithArg(cmd, name) ==
    The({IF index = 0 THEN <<>>
         ELSE The({UpToSpace(val, 1) :
                      val \in {LastFlagArg(FlagArg(cmd, name, index), name)}}) :
            index \in {FindCommandLineFlag(cmd, name)}})

\* StripExt: the string without its extension, the last '.' and what follows
\* it, when that '.' is in the last component of the path.
StripExt(s) ==
    The({IF RFind(v, ".") = 0 \/ RFind(v, ".") < RFind(v, "/") THEN v
         ELSE SubSeq(v, 1, RFind(v, ".") - 1) : v \in {s}})

\* ERROR(...): the message is reported and the call returns; reported
\* counts the reports.
ERROR(reported) == reported + 1

\* The end of GetDepfileFromCommandImpl, without -MF: the depfile is named
\* after the -o argument.
DepfileFromOutput(o) ==
    IF o = <<>> THEN [ok |-> FALSE, out |-> <<>>, errors |-> ERROR(0)]
    ELSE [ok |-> TRUE, out |-> StripExt(o) \o <<".", "d">>, errors |-> 0]

\* GetDepfileFromCommandImpl: whether it returns true, what it appends to
\* *out, and how many errors it reports.
GetDepfileFromCommandImpl(cmd) ==
    IF \/ /\ FindCommandLineFlag(cmd, <<" ", "-", "M", "D">>) = 0
          /\ FindCommandLineFlag(cmd, <<" ", "-", "M", "M", "D">>) = 0
       \/ FindCommandLineFlag(cmd, <<" ", "-", "c">>) = 0
    THEN [ok |-> FALSE, out |-> <<>>, errors |-> 0]
    ELSE The({IF mf # <<>> THEN [ok |-> TRUE, out |-> mf, errors |-> 0]
              ELSE The({DepfileFromOutput(o) :
                           o \in {FindCommandLineFlagWithArg(cmd, <<" ", "-", "o">>)}}) :
                 mf \in {FindCommandLineFlagWithArg(cmd, <<" ", "-", "M", "F">>)}})

\* cmd->erase(found, n).  string::erase throws std::out_of_range when found
\* is past the end, as npos is; nothing in the generator catches it.
Erase(cmd, found, n) ==
    IF found = 0 THEN [threw |-> TRUE, cmd |-> cmd]
    ELSE [threw |-> FALSE,
          cmd |-> SubSeq(cmd, 1, found - 1) \o SubSeq(cmd, found + n, Len(cmd))]

\* The removal of "; rm -f <depfile>" from a command that names the .P file.
\* ERROR, not a return, precedes the erase when the removal is not found.
RemoveRmF(cmd, out, rm_f, found) ==
    The({[result |-> IF e.threw THEN "threw" ELSE "true", cmd |-> e.cmd,
          out |-> out, errors |-> IF found = 0 THEN ERROR(0) ELSE 0] :
            e \in {Erase(cmd, found, Len(rm_f))}})

\* What GetDepfileFromCommand appends to a command whose depfile is kept.
CopyDepfile(out) == <<"&", "&", " ", "c", "p", " ">> \o out \o <<" ">> \o out \o <<".", "t", "m", "p", " ">>

\* GetDepfileFromCommand after GetDepfileFromCommandImpl returned true with
\* *out = out.
DepfileHacks(cmd, out) ==
    IF Contains(cmd, <<"b", "i", "n", "/", "l", "l", "v", "m", "-", "r", "s", "-", "c", "c", " ">>)
    THEN [result |-> "false", cmd |-> cmd, out |-> out, errors |-> 0]
    ELSE IF Contains(cmd, StripExt(out) \o <<".", "P">>)
    THEN The({RemoveRmF(cmd, out, rm_f, Find(cmd, rm_f)) : rm_f \in {<<";", " ", "r", "m", " ", "-", "f", " ">> \o out}})
    ELSE IF Contains(cmd, <<"/">> \o StripExt(Basename(out)) \o <<".", "s">>)
    THEN [result |-> "false", cmd |-> cmd, out |-> out, errors |-> 0]
    ELSE [result |-> "true", cmd |-> cmd \o CopyDepfile(out),
          out |-> out \o <<".", "t", "m", "p">>, errors |-> 0]

\* GetDepfileFromCommand(&cmd, &out) on an empty out: result is "true",
\* "false" or "threw"; cmd and out are the strings it leaves; errors counts
\* the ERROR reports.
GetDepfileFromCommand(cmd) ==
    The({IF ~impl.ok
         THEN [result |-> "false", cmd |-> cmd, out |-> impl.out,
               errors |-> impl.errors]
         ELSE DepfileHacks(cmd, impl.out) :
            impl \in {GetDepfileFromCommandImpl(cmd)}})

TextLine(kind, text) ==
    [kind |-> kind, lhs |-> text, rule |-> <<>>, ins |-> <<>>, oos |-> <<>>, by |-> NoNode]

\* EmitDepfile(&cmd_buf): the buffer it leaves, the lines it writes, and
\* whether it was left by a throw.
EmitDepfile(cmd_buf) ==
    The({[threw   |-> r.result = "threw",
          cmd_buf |-> IF r.result = "threw" THEN r.cmd ELSE Front(r.cmd),
          errors  |-> r.errors,
          lines   |-> IF r.result = "true"
                      THEN <<TextLine("depfile", r.out),
                             TextLine("deps", <<"g", "c", "c">>)>>
                      ELSE <<>>] :
            r \in {GetDepfileFromCommand(Append(cmd_buf, " "))}})

(***************************************************************************)
(* NinjaGenerator::EscapeShell                                             *)
(***************************************************************************)
\* The bytes that EscapeShell prefixes with a backslash whatever precedes them.
ShellSpecials == {Backquote, "\"", "!", "\\"}

\* A '$' case without the lastDollar flag: every '$' gets its backslash.
EscapeDollarAlways(st) == [r |-> st.r \o <<"\\", "$">>, lastDollar |-> TRUE]

\* case '$' of EscapeShell.
EscapeDollar(st) ==
    IF st.lastDollar
    THEN [r |-> Append(st.r, "$"), lastDollar |-> FALSE]
    ELSE [r |-> st.r \o <<"\\", "$">>, lastDollar |-> TRUE]

\* The switch of EscapeShell on byte c.
EscapeShellByte(st, c) ==
    IF c = "$" THEN EscapeDollar(st)
    ELSE IF c \in ShellSpecials THEN [r |-> st.r \o <<"\\", c>>, lastDollar |-> FALSE]
    ELSE [r |-> Append(st.r, c), lastDollar |-> FALSE]

RECURSIVE EscapeShellLoop(_, _, _)
\* for (char c : s), from the i-th byte on.
EscapeShellLoop(st, s, i) ==
    IF i > Len(s) THEN st
    ELSE The({EscapeShellLoop(next, s, i + 1) : next \in {EscapeShellByte(st, s[i])}})

\* EscapeShell(s): s itself when it has none of the bytes to escape.
EscapeShell(s) ==
    IF Range(s) \cap (ShellSpecials \cup {"$"}) = {} THEN s
    ELSE EscapeShellLoop([r |-> <<>>, lastDollar |-> FALSE], s, 1).r

(***************************************************************************)
(* TranslateCommand on its own: every recipe line of a bounded length, on  *)
(* a buffer that is empty or holds what GenShellScript put there.          *)
(***************************************************************************)
Alphabet == {"#", "'", "\"", "\\", " ", "\n", "$", ";", "a"}

Strings(alphabet, n) == UNION {[1..k -> alphabet] : k \in 0..n}

\* cmd_buf at the call: empty, after the '(' of a subshell, and after a
\* separator.
PriorBufs == {<<>>, <<"(">>, <<"a", " ", "&", "&", " ">>}

emitState == <<nodes, node_i, build_all_targets, graph, done_, short_names_,
               rule_id_, fp_, stack, visits>>

InitCall ==
    /\ Constructed
    /\ graph = <<>>
    /\ pc = "call"

\* A call of TranslateCommand.  A read out of the string yields any byte: the
\* loop ends on one that is not stripped, and on one that is stripped
\* resize(size() - 1) of the empty string throws.
TranslateCall(alphabet, priors) ==
    /\ pc = "call"
    /\ \E in \in Strings(alphabet, MaxLine), cmd_buf \in priors :
          LET t == TranslateCommand(in, cmd_buf)
          IN  /\ arg' = [in |-> in, cmd_buf |-> cmd_buf]
              /\ ret' = t
              /\ pc' \in IF t.oob THEN {"translated", "threw"} ELSE {"translated"}
    /\ UNCHANGED emitState

TranslateCommandCall == TranslateCall(Alphabet, PriorBufs)

SpecTranslate == InitCall /\ [][TranslateCommandCall]_vars

(***************************************************************************)
(* EscapeShell on what TranslateCommand leaves in an empty buffer, as      *)
(* EmitNode applies it to the composed command: every recipe line of a     *)
(* bounded length over the bytes that either of them treats specially.     *)
(***************************************************************************)
ShellAlphabet == {"$", "\\", "\"", "!", Backquote, "\n", "a"}

TranslateLineCall == TranslateCall(ShellAlphabet, {<<>>})

\* EscapeShell(cmd_buf), for the command line of the rule.
EscapeShellCall ==
    /\ pc = "translated"
    /\ ret' = [buf |-> ret.buf, orig_size |-> ret.orig_size, oob |-> ret.oob,
               escaped |-> EscapeShell(ret.buf)]
    /\ pc' = "escaped"
    /\ UNCHANGED <<arg, emitState>>

NextEscape == TranslateLineCall \/ EscapeShellCall

SpecEscape == InitCall /\ [][NextEscape]_vars

(***************************************************************************)
(* GenShellScript on its own: every list of a bounded length of Commands   *)
(* made of these recipe lines.                                             *)
(***************************************************************************)
RecipeLines ==
    { <<"a">>,
      <<" ", "(", "a", ")">>,
      <<"a", "$", "b", " ", ";", " ">>,
      <<"#", "c">>,
      <<"e", "c", "h", "o", " ", "'", "x", "'">>,
      <<"e", "c", "h", "o", " ", "x", ">", "y">> }

Commands == [cmd : RecipeLines, echo : BOOLEAN, ignore_error : BOOLEAN]

\* A call of GenShellScript from EmitNode, which makes it with a list that is
\* not empty and an empty cmd_buf.  A read out of the string in a
\* TranslateCommand call either goes unnoticed or ends in a throw.
GenShellScriptCall ==
    /\ pc = "call"
    /\ \E commands \in Strings(Commands, MaxCommands) \ {<<>>},
          detect_android_echo \in BOOLEAN :
          LET sh == GenShellScript(commands, detect_android_echo)
          IN  /\ arg' = [commands |-> commands, detect_android_echo |-> detect_android_echo]
              /\ ret' = sh
              /\ pc' \in IF sh.oob THEN {"composed", "threw"} ELSE {"composed"}
    /\ UNCHANGED emitState

SpecShell == InitCall /\ [][GenShellScriptCall]_vars

(***************************************************************************)
(* The depfile of composed commands: a compiler name followed by a bounded *)
(* number of these fragments.                                              *)
(***************************************************************************)
Fragments ==
    { <<" ", "-", "M", "D", " ", "-", "c">>,
      <<" ", "-", "M", "M", "D">>,
      <<" ", "-", "M", "F", " ", "x", ".", "d">>,
      <<" ", "-", "o", " ", "x", ".", "o">>,
      <<" ", ">", "x", ".", "P">>,
      <<";", " ", "r", "m", " ", "-", "f", " ", "x", ".", "d">>,
      <<" ", "b", "i", "n", "/", "l", "l", "v", "m", "-", "r", "s", "-", "c", "c">>,
      <<" ", "y", "/", "x", ".", "s">> }

ComposedCommands ==
    {<<"c", "c">> \o Concat(fs) : fs \in Strings(Fragments, MaxFragments)}

\* A call of GetDepfileFromCommand on a command that ends with the space
\* that EmitDepfile appends.
GetDepfileFromCommandCall ==
    /\ pc = "call"
    /\ \E cmd \in {Append(c, " ") : c \in ComposedCommands} :
          \E r \in {GetDepfileFromCommand(cmd)} :
              /\ arg' = cmd
              /\ ret' = <<r>>
              /\ pc' = IF r.result = "threw" THEN "threw" ELSE "got"
    /\ UNCHANGED emitState

\* A second call, on the command that a first call which returned true left.
GetDepfileFromCommandAgain ==
    /\ pc = "got"
    /\ Len(ret) = 1
    /\ ret[1].result = "true"
    /\ \E cmd \in {ret[1].cmd} :
          \E r \in {GetDepfileFromCommand(cmd)} :
              /\ ret' = Append(ret, r)
              /\ pc' = IF r.result = "threw" THEN "threw" ELSE "got"
    /\ UNCHANGED <<arg, emitState>>

\* The part of EmitNode that writes the rule of a node whose composed
\* command is cmd_buf, and its build stanza.  A throw in EmitDepfile leaves
\* EmitNode, and the generator, with the lines written before it.
EmitRule ==
    /\ pc = "call"
    /\ \E cmd_buf \in ComposedCommands :
          \E d \in {EmitDepfile(cmd_buf)},
             head \in {<<RuleLine(RuleName(rule_id_)),
                         TextLine("description", ShellStart.description)>>} :
              /\ arg' = cmd_buf
              /\ ret' = d
              /\ rule_id_' = RuleIdNext(rule_id_)
              /\ IF d.threw
                 THEN /\ fp_' = fp_ \o head
                      /\ pc' = "unwound"
                 ELSE /\ fp_' = fp_ \o head \o d.lines
                                    \o <<TextLine("command", d.cmd_buf),
                                         TextLine("build", <<>>)>>
                      /\ pc' = "emitted"
    /\ UNCHANGED <<nodes, node_i, build_all_targets, graph, done_, short_names_,
                   stack, visits>>

NextDepfile ==
    \/ GetDepfileFromCommandCall
    \/ GetDepfileFromCommandAgain
    \/ EmitRule

SpecDepfile == InitCall /\ [][NextDepfile]_vars

(***************************************************************************)
(* Vocabulary of the properties of the emission.                           *)
(***************************************************************************)
Prereqs(n) == Range(graph[n].deps) \cup Range(graph[n].order_onlys)

RECURSIVE Closure(_)
Closure(S) ==
    LET T == S \cup UNION {Prereqs(n) : n \in S}
    IN  IF T = S THEN S ELSE Closure(T)

\* The DepNodes reachable from the input roots through deps and order_onlys.
Reachable == Closure(Range(nodes))

\* The loop of GenerateNinja over `nodes` is over.
LoopOver ==
    \/ pc \in {"closed", "aborted"}
    \/ pc = "nodes" /\ stack = <<>> /\ node_i > Len(nodes)

Lines(kinds) == {i \in DOMAIN fp_ : fp_[i].kind \in kinds}

\* The outputs of the DepNodes that have a per-node build stanza.
EmittedOutputs == {graph[fp_[i].by].output : i \in Lines({"build"})}

\* The suppression predicate, in the words of the specification.
SuppressionPredicate(n) ==
    /\ graph[n].cmds = "none"
    /\ Len(graph[n].deps) = 0
    /\ Len(graph[n].order_onlys) = 0
    /\ graph[n].is_phony = FALSE

\* C1 (emission coverage): once the loop over `nodes` is over, every
\* reachable DepNode that does not satisfy the suppression predicate is the
\* target of exactly one per-node build stanza.
C1_EmissionCoverage ==
    LoopOver =>
        \A n \in Reachable :
            ~SuppressionPredicate(n) =>
                Cardinality({i \in Lines({"build"}) :
                    fp_[i].lhs = EscapeBuildTarget(graph[n].output)}) = 1

\* A finished run in which a phony leaf that is the prerequisite of the two
\* other DepNodes, both reachable, was emitted.
C1_Witness ==
    /\ pc = "closed"
    /\ \E n \in Reachable :
          /\ graph[n].is_phony
          /\ Prereqs(n) = {}
          /\ ~SuppressionPredicate(n)
          /\ Cardinality({m \in Reachable : n \in Prereqs(m)}) = 2
          /\ graph[n].output \in EmittedOutputs

\* C2 (no doubled emission): no two build stanzas of the file, per-node or
\* shortcut, have the same left-hand side.
C2_NoDoubledEmission ==
    \A i, j \in Lines({"build", "shortcut"}) : i # j => fp_[i].lhs # fp_[j].lhs

\* The part of C2 about done_: no shortcut is written for a basename that
\* is in done_.
C2_NoShortcutForDone ==
    \A i \in Lines({"shortcut"}) : fp_[i].lhs \notin done_

\* The emitted outputs that have basename b; dirOnly leaves out those that
\* are their own basename.
WithBasename(b, dirOnly) ==
    {o \in EmittedOutputs : Basename(o) = b /\ (dirOnly => Basename(o) # o)}

ShortNamesAre(dirOnly) ==
    \A b \in {Basename(graph[n].output) : n \in Nodes} \cup DOMAIN short_names_ :
        LET os == WithBasename(b, dirOnly)
        IN  /\ Cardinality(os) = 1 =>
                b \in DOMAIN short_names_ /\ short_names_[b] \in os
            /\ Cardinality(os) >= 2 =>
                /\ b \in DOMAIN short_names_ /\ short_names_[b] = kEmptySym
                /\ \A i \in Lines({"shortcut"}) : fp_[i].lhs # b
            /\ Cardinality(os) = 0 => b \notin DOMAIN short_names_

\* C3 as stated: once all nodes are emitted, short_names_[b] is an output
\* iff exactly one emitted output has basename b, and is the empty Symbol
\* when two or more have.
C3_ShortNamesAsStated == LoopOver => ShortNamesAre(FALSE)

\* C3 (short_names invariant), amended: the same, counting only the emitted
\* outputs that differ from their basename.
C3_ShortNames == LoopOver => ShortNamesAre(TRUE)

\* A finished run that emitted "$" and "d/$" and no other output of that
\* basename: short_names_ maps "$" to "d/$", and no shortcut is written.
C3_Witness ==
    /\ pc = "closed"
    /\ Cardinality(WithBasename(<<"$">>, FALSE)) = 2
    /\ Cardinality(WithBasename(<<"$">>, TRUE)) = 1
    /\ short_names_[<<"$">>] # kEmptySym

\* C4 as stated: the default line comes after all shortcut stanzas and after
\* every per-node stanza.
C4_DefaultLastAsStated ==
    pc = "closed" =>
        \A i \in Lines({"default"}), j \in Lines({"rule", "build", "shortcut"}) : j < i

\* C4 (ordering of the default target), amended: when build_all_targets is
\* false the file has one default line, naming the first node's output; it
\* comes after every per-node stanza and before every shortcut stanza.
C4_DefaultOrder ==
    pc = "closed" =>
        /\ Cardinality(Lines({"default"})) = IF build_all_targets THEN 0 ELSE 1
        /\ \A i \in Lines({"default"}) :
              /\ fp_[i].lhs = graph[nodes[1]].output
              /\ \A j \in Lines({"rule", "build"}) : j < i
              /\ \A j \in Lines({"shortcut"}) : i < j

\* A finished run whose file has per-node stanzas, a default line and a
\* shortcut stanza.
C4_Witness ==
    /\ pc = "closed"
    /\ Lines({"default"}) # {}
    /\ Lines({"shortcut"}) # {}
    /\ Lines({"rule"}) # {}

\* C9 (uniqueness of rule names): the rule lines of the file are named
\* rule0, rule1, ... in the order written, rule_id_ is their number, one is
\* written per emitted DepNode whose evaluated command list is non-empty,
\* right before that node's build stanza, and so no two have the same name.
C9_RuleNamesUnique ==
    LET rules == Lines({"rule"})
    IN  /\ rule_id_ = Cardinality(rules)
        /\ \A i \in rules :
              /\ fp_[i].lhs = <<"rule", Cardinality({j \in rules : j < i})>>
              /\ i + 1 \in Lines({"build"})
              /\ fp_[i + 1].rule = fp_[i].lhs
              /\ graph[fp_[i + 1].by].cmds = "cmd"
        /\ \A i \in Lines({"build"}) :
              graph[fp_[i].by].cmds = "cmd" => i - 1 \in rules
        /\ \A i, j \in rules : i # j => fp_[i].lhs # fp_[j].lhs

\* Two rules were minted, and a node without evaluated commands was
\* emitted with the built-in phony rule.
C9_Witness ==
    /\ rule_id_ = 2
    /\ \E i \in Lines({"build"}) : fp_[i].rule = <<"phony">>

RECURSIVE PendingCalls(_)
\* The recursive EmitNode calls the frames have yet to make.
PendingCalls(frames) ==
    IF frames = <<>> THEN 0 ELSE Len(Head(frames).rest) + PendingCalls(Tail(frames))

FanOut(n) == Len(graph[n].deps) + Len(graph[n].order_onlys)

MaxFanOut == CHOOSE c \in {FanOut(n) : n \in Nodes} : \A n \in Nodes : FanOut(n) <= c

\* What is left to do: it decreases with every step of the traversal.
Measure ==
    Cardinality({n \in Nodes : graph[n].output \notin done_}) * (MaxFanOut + 1)
    + (Len(nodes) + 1 - node_i) + PendingCalls(stack)
    + (IF pc = "nodes" THEN 1 ELSE 0)

\* C10 (visit-once traversal and termination): every DepNode whose EmitNode
\* call is active, so every node whose prerequisites are being recursed
\* into, has its output in done_; EmitNode runs past the done_ check at most
\* once per output; and every step of the traversal decreases a natural
\* number, so the traversal ends on cyclic graphs too.
C10_VisitOnce ==
    [][pc = "nodes" =>
        /\ \A k \in DOMAIN stack' : graph[stack'[k].node].output \in done_'
        /\ \A n \in Nodes : visits'[n] <= 1
        /\ Measure' >= 0
        /\ Measure' < Measure]_vars

\* A finished run over a cycle: two DepNodes that are each other's
\* prerequisite were each visited once.
C10_Witness ==
    /\ pc = "closed"
    /\ \E a, b \in Reachable :
          /\ a # b
          /\ a \in Prereqs(b) /\ b \in Prereqs(a)
          /\ visits[a] = 1 /\ visits[b] = 1

(***************************************************************************)
(* Vocabulary of the properties of TranslateCommand.                       *)
(***************************************************************************)
RECURSIVE BackslashRun(_, _)
\* The number of consecutive backslashes that end right before position i.
BackslashRun(in, i) ==
    IF i > 1 /\ in[i - 1] = "\\" THEN 1 + BackslashRun(in, i - 1) ELSE 0

\* Whether a backslash keeps the byte at i from opening a quote: as stated,
\* any backslash right before it; as amended, a backslash that is not itself
\* escaped (the run of backslashes before i is odd).
Escaped(in, i, stated) ==
    IF stated THEN BackslashRun(in, i) > 0 ELSE BackslashRun(in, i) % 2 = 1

RECURSIVE QuoteAt(_, _, _)
\* The quote that position i of the line is in, NoQuote when in none: a quote
\* is opened by a quote character outside quotes that is not escaped, and
\* closed by the next occurrence of the same character.
QuoteAt(in, i, stated) ==
    IF i = 1 THEN NoQuote
    ELSE LET q == QuoteAt(in, i - 1, stated)
             c == in[i - 1]
         IN  IF c \notin QuoteChars THEN q
             ELSE IF q # NoQuote THEN (IF c = q THEN NoQuote ELSE q)
             ELSE IF Escaped(in, i - 1, stated) THEN NoQuote
             ELSE c

\* The positions of the '#' that are outside all quotes and either first or
\* right after whitespace.
CommentStarts(in, stated) ==
    {i \in DOMAIN in : /\ in[i] = "#"
                       /\ QuoteAt(in, i, stated) = NoQuote
                       /\ (i = 1 \/ IsSpace(in[i - 1]))}

\* The line without its comment.
BeforeComment(in, stated) ==
    LET starts == CommentStarts(in, stated)
    IN  IF starts = {} THEN in
        ELSE SubSeq(in, 1, (CHOOSE i \in starts : \A j \in starts : i <= j) - 1)

\* The bytes that the translation copies and never takes back.
IsVerbatim(c) == c \in QuoteChars \cup {"#", "a"}
Verbatim(s) == SelectSeq(s, IsVerbatim)

CommentStripped(stated) ==
    pc = "translated" =>
        Verbatim(Translated(ret)) = Verbatim(BeforeComment(arg.in, stated))

\* C8 as stated: every '#' in a quote is emitted, and the first '#' outside
\* quotes and after whitespace ends the translation, a quote character right
\* after a backslash opening no quote.
C8_CommentStrippingAsStated == CommentStripped(TRUE)

\* C8 (comment-stripping quote safety), amended: the same, a quote character
\* opening no quote when the run of backslashes right before it is odd.
C8_CommentStripping == CommentStripped(FALSE)

\* The line '#' # a : the quoted '#' is emitted, the second one and what
\* follows it are not.
C8_Witness ==
    /\ pc = "translated"
    /\ arg = [in |-> <<"'", "#", "'", " ", "#">>, cmd_buf |-> <<"(">>]
    /\ ret.buf = <<"(", "'", "#", "'">>

(***************************************************************************)
(* Vocabulary of the properties of GenShellScript.                         *)
(***************************************************************************)
HasSuffix(s, x) == Len(s) >= Len(x) /\ SubSeq(s, Len(s) - Len(x) + 1, Len(s)) = x

\* The first byte of the line that is not whitespace is '('.
StartsWithParen(in) ==
    \E i \in DOMAIN in : in[i] = "(" /\ \A j \in 1..(i - 1) : IsSpace(in[j])

\* GenShellScript wraps the last recipe in a subshell of its own.
LastIsWrapped ==
    Len(arg.commands) > 1 /\ ~StartsWithParen(Last(arg.commands).cmd)

IgnoresLastError == pc = "composed" /\ Last(arg.commands).ignore_error

\* C5 as stated: when the last Command ignores errors the composed line
\* ends with " ; true", wrapped in a subshell or not.
C5_IgnoreErrorAsStated ==
    IgnoresLastError => HasSuffix(ret.cmd_buf, <<" ", ";", " ", "t", "r", "u", "e">>)

\* C5 (ignore-error on the last recipe), amended: " ; true" is appended to
\* the last recipe; when GenShellScript wraps that recipe in a subshell it
\* is inside the parentheses, so that the line ends with " ; true)", and
\* otherwise the line ends with " ; true".
C5_IgnoreError ==
    IgnoresLastError =>
        HasSuffix(ret.cmd_buf,
                  IF LastIsWrapped
                  THEN <<" ", ";", " ", "t", "r", "u", "e", ")">>
                  ELSE <<" ", ";", " ", "t", "r", "u", "e">>)

\* Two recipes, the last one to ignore errors: (a) && (a ; true).
C5_Witness ==
    /\ IgnoresLastError
    /\ LastIsWrapped
    /\ ret.cmd_buf = <<"(", "a", ")", " ", "&", "&", " ",
                       "(", "a", " ", ";", " ", "t", "r", "u", "e", ")">>

(***************************************************************************)
(* Properties of GetDepfileFromCommand and EmitDepfile.                    *)
(***************************************************************************)
\* The first call took the default path: it appended the copy to the command
\* and reports the copy.
DefaultPath == HasSuffix(ret[1].out, <<".", "t", "m", "p">>)

Recalled == pc \in {"got", "threw"} /\ Len(ret) = 2

\* C6: a second call of GetDepfileFromCommand, on the command that a first
\* call which returned true left, returns true and reports the same depfile,
\* on the .P path and on the default path.
C6_DepfileIdempotent ==
    Recalled => ret[2].result = "true" /\ ret[2].out = ret[1].out

\* The default path alone has the property.
C6_DefaultPathIdempotent ==
    (Recalled /\ DefaultPath) => ret[2].result = "true" /\ ret[2].out = ret[1].out

\* The command of the rule names the .P file of its depfile and has no
\* "; rm -f <depfile>".
DotPWithoutRemoval(cmd) ==
    The({/\ impl.ok
         /\ ~Contains(cmd, <<"b", "i", "n", "/", "l", "l", "v", "m", "-", "r", "s", "-", "c", "c", " ">>)
         /\ Contains(cmd, StripExt(impl.out) \o <<".", "P">>)
         /\ ~Contains(cmd, <<";", " ", "r", "m", " ", "-", "f", " ">> \o impl.out) :
            impl \in {GetDepfileFromCommandImpl(cmd)}})

\* C7: when the command names the .P file and the removal of the depfile is
\* not found, the error is reported, the command is left as it was, nothing
\* is erased out of range, and the rule and its build stanza are written.
C7_CleanupErrorNonFatal ==
    (pc \in {"emitted", "unwound"} /\ DotPWithoutRemoval(Append(arg, " ")))
        => /\ pc = "emitted"
           /\ ~ret.threw
           /\ ret.errors = 1
           /\ ret.cmd_buf = arg
           /\ Lines({"command"}) # {}
           /\ Lines({"build"}) # {}

(***************************************************************************)
(* Properties of the buffer of TranslateCommand.                           *)
(***************************************************************************)
\* The strip loop did not read (*cmd_buf)[size() - 1] of an empty buffer.
NoReadBeforeStart == ~ret.oob /\ pc # "threw"

\* The bytes that were in the buffer at entry are still there.
KeepsPrior ==
    /\ Len(ret.buf) >= ret.orig_size
    /\ SubSeq(ret.buf, 1, ret.orig_size) = arg.cmd_buf

\* C12 (buffer frame of TranslateCommand): for any line and any prior
\* buffer, the buffer is never shorter than at entry, the bytes before
\* orig_size are unchanged, and the strip loop never reads before the start
\* of an empty buffer.
C12_BufferFrame ==
    pc \in {"translated", "threw"} => NoReadBeforeStart /\ KeepsPrior

(***************************************************************************)
(* Properties of EscapeShell on translated commands.                       *)
(***************************************************************************)
\* The number of bytes of s that are c.
Count(s, c) == Cardinality({i \in DOMAIN s : s[i] = c})

RECURSIVE EscapedByPairs(_, _)
\* The escaping in the words of the specification, from the i-th byte of t
\* on: "$$" becomes \$$, a '$' alone \$, each of the backquote, '"', '!' and
\* '\' gets one backslash, and any other byte is left as it is.
EscapedByPairs(t, i) ==
    IF i > Len(t) THEN <<>>
    ELSE IF t[i] = "$" /\ i < Len(t) /\ t[i + 1] = "$"
    THEN <<"\\", "$", "$">> \o EscapedByPairs(t, i + 2)
    ELSE IF t[i] \in ShellSpecials \cup {"$"}
    THEN <<"\\", t[i]>> \o EscapedByPairs(t, i + 1)
    ELSE <<t[i]>> \o EscapedByPairs(t, i + 1)

\* C11 (EscapeShell composed with TranslateCommand): the "$$" that
\* TranslateCommand writes for each '$' of the line comes out as \$$ and
\* never as \$\$; the backquote, '"', '!' and '\' get exactly one backslash
\* each, and every other byte is unchanged.
C11_EscapeShellOfTranslated ==
    pc = "escaped" =>
        /\ ret.escaped = EscapedByPairs(ret.buf, 1)
        /\ ~Contains(ret.escaped, <<"\\", "$", "\\", "$">>)
        /\ Count(ret.buf, "$") = 2 * Count(arg.in, "$")
        /\ Count(ret.escaped, "$") = 2 * Count(arg.in, "$")
        /\ Count(ret.escaped, "\\") =
               Count(arg.in, "$") + Cardinality({i \in DOMAIN ret.buf :
                                                    ret.buf[i] \in ShellSpecials})
                                  + Count(ret.buf, "\\")

\* The line $$! : two runs of "$$" side by side and a '!'.
C11_Witness ==
    /\ pc = "escaped"
    /\ arg.in = <<"$", "$", "!">>
    /\ ret.buf = <<"$", "$", "$", "$", "!">>
    /\ ret.escaped = <<"\\", "$", "$", "\\", "$", "$", "\\", "!">>

====
